---- MODULE Spec2Model ----
(***************************************************************************)
(* Model of classes/SV_utils.py, class SV_system: the RESTful client for   *)
(* the Spectrum Virtualize API.  One process: construction (__init__),     *)
(* then calls of run_command and one generate_excel_report, every call     *)
(* running to its return or to the termination of the process (Spec); and  *)
(* two processes that write one report file (SpecInstances).               *)
(* Command names, roles and sheet titles are strings, as in the source.    *)
(***************************************************************************)
EXTENDS Integers, Sequences, FiniteSets, TLC

VARIABLES
    pc,          \* position of the process in the code
    exitCode,    \* process exit status once pc = "exited", NoExit before
    raised,      \* exception that ended the process ("none" while running)
    dirExists,   \* os.path.isdir(self.output_dir)
    token_id,    \* self.token_id
    user_role,   \* self.user_role
    first_run,   \* self.first_run
    call,        \* the call in progress, or the last one made: "__init__",
                 \* "run_command" or "generate_excel_report"
    command,     \* argument of the run_command / __parse_command_to_excel in progress
    has_right,   \* local has_right of run_command
    cmd_d,       \* value run_command returned last
    sheet,       \* cells and styles of the sheet ws
    idx,         \* position of generate_excel_report's loop in _report_commands
    wb,          \* sheet titles of the workbook held in memory
    ws,          \* title of the sheet being written
    fileExists,  \* the file self.master_file exists
    disk,        \* sheet titles of the workbook stored in self.master_file
    events,      \* probes, requests and saves of the call in progress, in order
    calls,       \* number of calls made on the constructed object
    reported,    \* generate_excel_report has been called
    procs,       \* the process instances that share one master_file: for each
                 \* its position, first_run, loop index, workbook and exit status
    artifact     \* the file they share: whether it exists, whether it is a
                 \* complete workbook, and its sheets

vars == <<pc, exitCode, raised, dirExists, token_id, user_role, first_run, call,
          command, has_right, cmd_d, sheet, idx, wb, ws, fileExists, disk, events,
          calls, reported, procs, artifact>>

(***************************************************************************)
(* Bounds and input sets                                                   *)
(***************************************************************************)
\* number of calls the driver makes on the constructed object
MaxCalls == 2

\* roles the server may report for the user
Roles == {"Administrator", "SecurityAdmin", "CopyOperator", "Monitor", "Service", ""}

\* tokens the auth endpoint may hand out
Tokens == {"tok_a", "tok_b"}

\* commands the driver passes to run_command
ApiCommands ==
    {"lshost", "ls", "lsstart", "startfcmap", "stopfcmap", "prestartfcmap",
     "prestopfcmap", "startls", "addhostport", "chvdisk", "mkvdisk", "rmvdisk",
     "chls", "expandvdisksize", "movevdisk", "expandvdisksizes", "movevdis",
     "svcinfo", "l", "pre", ""}

\* HTTP status codes of a response
Statuses == {200, 403, 500}

\* results of socket.connect_ex: 0 connected, EAGAIN (timed out), ECONNREFUSED
EAGAIN == 11
ECONNREFUSED == 111
ConnectResults == {0, EAGAIN, ECONNREFUSED}

\* number of tier entries of a system summary
MaxTiers == 2

\* number of records of a command result
MaxRecords == 2

NoExit == -1
Unset == "<unset>"
NoRoleEntry == "<no role entry>"

(***************************************************************************)
(* Program constants                                                       *)
(***************************************************************************)
report_commands ==
    << "lssystem", "lsnodecanister", "lssystemstats", "lsnodestats", "lsvdisk",
       "lshost", "lshostcluster", "lshostvdiskmap", "lshostclustervolumemap",
       "lsvdiskaccess", "lsvdiskcopy", "lsportfc", "lsfcconsistgrp", "lsiogrp",
       "lsmdiskgrp", "lssystemip", "lspartnership", "lseventlog" >>

CopyOperator_roles == <<"Administrator", "SecurityAdmin", "CopyOperator", "SecurityAdmin">>
Admin_roles == <<"Administrator", "SecurityAdmin", "SecurityAdmin">>

(***************************************************************************)
(* Helpers: Python's str.startswith and list membership                    *)
(***************************************************************************)
startswith(s, p) == Len(s) >= Len(p) /\ SubSeq(s, 1, Len(p)) = p

InList(x, list) == \E i \in 1..Len(list) : list[i] = x

(***************************************************************************)
(* __check_user_rights: "True", "False", or "exit5" for sys.exit(5)        *)
(***************************************************************************)
\* variant: the lifecycle branch tests the administrators' list
check_user_rights_lifecycle_admin(cmd, role) ==
    IF startswith(cmd, "ls") THEN "True"
    ELSE IF \/ startswith(cmd, "start")
            \/ startswith(cmd, "stop")
            \/ startswith(cmd, "prestart")
            \/ startswith(cmd, "prestop")
         THEN IF InList(role, Admin_roles) THEN "True" ELSE "exit5"
    ELSE IF \/ startswith(cmd, "add")
            \/ startswith(cmd, "ch")
            \/ cmd = "expandvdisksize"
            \/ startswith(cmd, "mk")
            \/ cmd = "movevdisk"
            \/ startswith(cmd, "rm")
         THEN IF InList(role, Admin_roles) THEN "True" ELSE "exit5"
    ELSE "False"

\* variant: a command that matches no branch is refused
check_user_rights_unknown_denied(cmd, role) ==
    IF startswith(cmd, "ls") THEN "True"
    ELSE IF \/ startswith(cmd, "start")
            \/ startswith(cmd, "stop")
            \/ startswith(cmd, "prestart")
            \/ startswith(cmd, "prestop")
         THEN IF InList(role, CopyOperator_roles) THEN "True" ELSE "exit5"
    ELSE IF \/ startswith(cmd, "add")
            \/ startswith(cmd, "ch")
            \/ cmd = "expandvdisksize"
            \/ startswith(cmd, "mk")
            \/ cmd = "movevdisk"
            \/ startswith(cmd, "rm")
         THEN IF InList(role, Admin_roles) THEN "True" ELSE "exit5"
    ELSE "exit5"

\* variant: the first branch tests the name for equality with "ls"
check_user_rights_ls_exact(cmd, role) ==
    IF cmd = "ls" THEN "True"
    ELSE IF \/ startswith(cmd, "start")
            \/ startswith(cmd, "stop")
            \/ startswith(cmd, "prestart")
            \/ startswith(cmd, "prestop")
         THEN IF InList(role, CopyOperator_roles) THEN "True" ELSE "exit5"
    ELSE IF \/ startswith(cmd, "add")
            \/ startswith(cmd, "ch")
            \/ cmd = "expandvdisksize"
            \/ startswith(cmd, "mk")
            \/ cmd = "movevdisk"
            \/ startswith(cmd, "rm")
         THEN IF InList(role, Admin_roles) THEN "True" ELSE "exit5"
    ELSE "False"

check_user_rights(cmd, role) ==
    IF startswith(cmd, "ls") THEN "True"
    ELSE IF \/ startswith(cmd, "start")
            \/ startswith(cmd, "stop")
            \/ startswith(cmd, "prestart")
            \/ startswith(cmd, "prestop")
         THEN IF InList(role, CopyOperator_roles) THEN "True" ELSE "exit5"
    ELSE IF \/ startswith(cmd, "add")
            \/ startswith(cmd, "ch")
            \/ cmd = "expandvdisksize"
            \/ startswith(cmd, "mk")
            \/ cmd = "movevdisk"
            \/ startswith(cmd, "rm")
         THEN IF InList(role, Admin_roles) THEN "True" ELSE "exit5"
    ELSE "False"

\* variant: the role is tested before the name
reads_role_always(cmd) == TRUE

\* the branches of __check_user_rights that evaluate self.user_role (lines
\* 125 and 139); self.user_role does not exist before line 43 has run
reads_role(cmd) ==
    /\ ~startswith(cmd, "ls")
    /\ \/ startswith(cmd, "start")
       \/ startswith(cmd, "stop")
       \/ startswith(cmd, "prestart")
       \/ startswith(cmd, "prestop")
       \/ startswith(cmd, "add")
       \/ startswith(cmd, "ch")
       \/ cmd = "expandvdisksize"
       \/ startswith(cmd, "mk")
       \/ cmd = "movevdisk"
       \/ startswith(cmd, "rm")

(***************************************************************************)
(* Command results.  A record (a Python dict) is a sequence of <<key,      *)
(* value>> pairs in insertion order, with distinct keys.                   *)
(***************************************************************************)
Keys(rec) == [i \in 1..Len(rec) |-> rec[i][1]]

HasKey(rec, k) == \E i \in 1..Len(rec) : rec[i][1] = k

Get(rec, k) == rec[CHOOSE i \in 1..Len(rec) : rec[i][1] = k][2]

\* dict.update({k: v}): an existing key keeps its place and takes the value
update(rec, k, v) ==
    IF HasKey(rec, k)
    THEN [i \in 1..Len(rec) |-> IF rec[i][1] = k THEN <<k, v>> ELSE rec[i]]
    ELSE Append(rec, <<k, v>>)

\* the fields of the lssystem response that the code names, commented-out
\* lines 235 and 241 included
LssystemFields ==
    {"product_name", "name", "id", "code_level", "console_IP",
     "email_organization", "email_contact", "email_reply",
     "email_contact_primary", "auth_service_configured", "auth_service_type",
     "enhanced_callhome", "censor_callhome", "quorum_lease",
     "relationship_bandwidth_limit", "total_drive_raw_capacity",
     "physical_capacity", "physical_free_capacity", "easy_tier_acceleration",
     "has_nas_key", "compression_active", "compression_virtual_capacity",
     "compression_compressed_capacity", "compression_uncompressed_capacity",
     "deduplication_capacity_saving", "cache_prefetch"}

\* the value the server reports for a field
FieldValue(f) == "value of " \o f

TierNames == {"tier0_flash", "tier1_enterprise", "tier_nearline"}

Capacities == {<<"10.00TB", "4.00TB">>, <<"20.00TB", "5.00TB">>}

TierEntries ==
    {[tier |-> n, tier_capacity |-> c[1], tier_free_capacity |-> c[2]] :
        n \in TierNames, c \in Capacities}

\* the tiers of a summary; the system reports a tier once
TierLists ==
    UNION {{ts \in [1..n -> TierEntries] :
              \A i, j \in 1..n : i # j => ts[i].tier # ts[j].tier} : n \in 0..MaxTiers}

LssystemBodies ==
    {[fields |-> [f \in LssystemFields |-> FieldValue(f)], tiers |-> ts] :
        ts \in TierLists}

\* results of the list commands: records of a few shapes, the value of key k
\* in the i-th record being k followed by i
RecordShapes == {<<"id", "name">>, <<"id", "name", "status">>, <<"name", "id">>, <<"id">>}

RecordOf(shape, i) == [j \in 1..Len(shape) |-> <<shape[j], shape[j] \o ToString(i)>>]

RecordLists ==
    UNION {{[i \in 1..n |-> RecordOf(shapes[i], i)] : shapes \in [1..n -> RecordShapes]} :
              n \in 0..MaxRecords}

(***************************************************************************)
(* __format_lssystem_to_excel, lines 220-255: the dict of line 221, then   *)
(* two updates per tier                                                    *)
(***************************************************************************)
lssystem_columns ==
    << <<"Product name", "product_name">>,
       <<"Product model", "name">>,
       <<"Serial", "id">>,
       <<"Code level", "code_level">>,
       <<"Console IP", "console_IP">>,
       <<"Contact organization", "email_organization">>,
       <<"Contact name", "email_contact">>,
       <<"Contact email", "email_reply">>,
       <<"Contact phone", "email_contact_primary">>,
       <<"Auth service", "auth_service_configured">>,
       <<"Auth service type", "auth_service_type">>,
       <<"Callhome", "enhanced_callhome">>,
       <<"Callhome censor", "censor_callhome">>,
       <<"Copy rate", "relationship_bandwidth_limit">>,
       <<"Local raw capacity", "total_drive_raw_capacity">>,
       <<"Physical total", "physical_capacity">>,
       <<"Physical free", "physical_free_capacity">>,
       <<"Easy tier", "easy_tier_acceleration">>,
       <<"Compression", "compression_active">>,
       <<"Compressed virtual", "compression_virtual_capacity">>,
       <<"Compressed capacity", "compression_compressed_capacity">>,
       <<"Uncompressed capacity", "compression_uncompressed_capacity">>,
       <<"Deduplication savings", "deduplication_capacity_saving">>,
       <<"Cache prefetch", "cache_prefetch">> >>

RECURSIVE add_tiers(_, _)
add_tiers(row, tiers) ==
    IF tiers = <<>> THEN row
    ELSE LET tier == Head(tiers)
             tier_key_total == tier.tier \o "_total"
             tier_key_free  == tier.tier \o "_free"
         IN  add_tiers(update(update(row, tier_key_total, tier.tier_capacity),
                              tier_key_free, tier.tier_free_capacity),
                       Tail(tiers))

\* variant: the free capacity is stored under the key of the total
format_lssystem_to_excel_one_key(lssystem) ==
    LET row == [i \in 1..Len(lssystem_columns) |->
                   <<lssystem_columns[i][1], lssystem.fields[lssystem_columns[i][2]]>>]
        RECURSIVE add(_, _)
        add(r, tiers) ==
            IF tiers = <<>> THEN r
            ELSE LET tier == Head(tiers)
                     tier_key_total == tier.tier \o "_total"
                 IN  add(update(update(r, tier_key_total, tier.tier_capacity),
                                tier_key_total, tier.tier_free_capacity),
                         Tail(tiers))
    IN  <<add(row, lssystem.tiers)>>

format_lssystem_to_excel(lssystem) ==
    LET row == [i \in 1..Len(lssystem_columns) |->
                   <<lssystem_columns[i][1], lssystem.fields[lssystem_columns[i][2]]>>]
    IN  <<add_tiers(row, lssystem.tiers)>>

(***************************************************************************)
(* pd.DataFrame.from_dict of a list of records and dataframe_to_rows       *)
(* (lines 277 and 284): the columns are the keys of all the records in     *)
(* order of first appearance, a record without a column gives NaN, and the *)
(* rows are the header followed by one row per record.                     *)
(***************************************************************************)
NaN == "NaN"

RECURSIVE add_keys(_, _)
add_keys(cols, keys) ==
    IF keys = <<>> THEN cols
    ELSE add_keys(IF InList(Head(keys), cols) THEN cols ELSE Append(cols, Head(keys)),
                  Tail(keys))

RECURSIVE columns_of(_, _)
columns_of(cols, cmd_list) ==
    IF cmd_list = <<>> THEN cols
    ELSE columns_of(add_keys(cols, Keys(Head(cmd_list))), Tail(cmd_list))

\* variant: the columns are the keys of the first record
dataframe_rows_first_record(cmd_list) ==
    LET cols == IF cmd_list = <<>> THEN <<>> ELSE Keys(cmd_list[1])
    IN  <<cols>> \o
        [i \in 1..Len(cmd_list) |->
            [j \in 1..Len(cols) |->
                IF HasKey(cmd_list[i], cols[j]) THEN Get(cmd_list[i], cols[j]) ELSE NaN]]

dataframe_rows(cmd_list) ==
    LET cols == columns_of(<<>>, cmd_list)
    IN  <<cols>> \o
        [i \in 1..Len(cmd_list) |->
            [j \in 1..Len(cols) |->
                IF HasKey(cmd_list[i], cols[j]) THEN Get(cmd_list[i], cols[j]) ELSE NaN]]

(***************************************************************************)
(* A worksheet: the rows appended to it, the coordinates <<row, column>>   *)
(* of its cells, the width of its columns and the font, fill and alignment *)
(* of its cells.                                                           *)
(***************************************************************************)
NoSheet == [rows |-> <<>>, cells |-> {}, width |-> <<>>, font |-> <<>>,
            fill |-> <<>>, alignment |-> <<>>]

DefaultFont == "default"
NoFill == "none"
DefaultAlignment == "general"
HEADER_FONT == "Calibri 12 bold 000000"
HeaderFill == "0066CC darkGrid"
EvenRowFill == "66cc00 darkGrid"
OddRowFill == "b3ff66 lightGrid"
Centered == "center center"
ColumnWidth == 25

\* ws.append(r) for every row r, on a sheet that has no cells (line 285)
append_rows(rows) ==
    LET cells == UNION {{<<r, c>> : c \in 1..Len(rows[r])} : r \in 1..Len(rows)}
    IN  [rows |-> rows,
         cells |-> cells,
         width |-> <<>>,
         font |-> [rc \in cells |-> DefaultFont],
         fill |-> [rc \in cells |-> NoFill],
         alignment |-> [rc \in cells |-> DefaultAlignment]]

Max(S) == CHOOSE x \in S : \A y \in S : y <= x
Min(S) == CHOOSE x \in S : \A y \in S : x <= y

\* ws.max_row, ws.max_column, ws.min_column: 1 for a sheet without cells
max_row(sh) == IF sh.cells = {} THEN 1 ELSE Max({rc[1] : rc \in sh.cells})
max_column(sh) == IF sh.cells = {} THEN 1 ELSE Max({rc[2] : rc \in sh.cells})
min_column(sh) == IF sh.cells = {} THEN 1 ELSE Min({rc[2] : rc \in sh.cells})

(***************************************************************************)
(* __format_sheet, lines 296-342.  ws.cell(row, column) and ws.iter_rows() *)
(* create the cells they name.                                             *)
(***************************************************************************)
\* variant: every call widens the columns that already have a width
format_sheet_widens(sh) ==
    LET R == max_row(sh)
        C == max_column(sh)
        m == min_column(sh)
        header == {1} \X (m..C)
        all    == (1..R) \X (m..C)
        even   == {rc \in (2..R) \X (1..C) : rc[1] % 2 = 0}
        odd    == {rc \in (3..R) \X (1..C) : rc[1] % 2 = 1}
        cells  == sh.cells \cup header \cup all \cup even \cup odd
    IN  [rows |-> sh.rows,
         cells |-> cells,
         width |-> [c \in m..C |-> IF c \in DOMAIN sh.width
                                   THEN sh.width[c] + ColumnWidth ELSE ColumnWidth],
         font |-> [rc \in cells |->
                     IF rc \in header THEN HEADER_FONT
                     ELSE IF rc \in sh.cells THEN sh.font[rc] ELSE DefaultFont],
         fill |-> [rc \in cells |->
                     IF rc \in odd THEN OddRowFill
                     ELSE IF rc \in even THEN EvenRowFill
                     ELSE IF rc \in header THEN HeaderFill
                     ELSE IF rc \in sh.cells THEN sh.fill[rc] ELSE NoFill],
         alignment |-> [rc \in cells |->
                     IF rc \in all THEN Centered
                     ELSE IF rc \in sh.cells THEN sh.alignment[rc] ELSE DefaultAlignment]]

format_sheet(sh) ==
    LET R == max_row(sh)
        C == max_column(sh)
        m == min_column(sh)
        \* cells of the loops of lines 318, 325, 333 and 337
        header == {1} \X (m..C)
        all    == (1..R) \X (m..C)
        even   == {rc \in (2..R) \X (1..C) : rc[1] % 2 = 0}
        odd    == {rc \in (3..R) \X (1..C) : rc[1] % 2 = 1}
        cells  == sh.cells \cup header \cup all \cup even \cup odd
    IN  [rows |-> sh.rows,
         cells |-> cells,
         width |-> [c \in m..C |-> ColumnWidth],
         font |-> [rc \in cells |->
                     IF rc \in header THEN HEADER_FONT
                     ELSE IF rc \in sh.cells THEN sh.font[rc] ELSE DefaultFont],
         fill |-> [rc \in cells |->
                     IF rc \in odd THEN OddRowFill
                     ELSE IF rc \in even THEN EvenRowFill
                     ELSE IF rc \in header THEN HeaderFill
                     ELSE IF rc \in sh.cells THEN sh.fill[rc] ELSE NoFill],
         alignment |-> [rc \in cells |->
                     IF rc \in all THEN Centered
                     ELSE IF rc \in sh.cells THEN sh.alignment[rc] ELSE DefaultAlignment]]

(***************************************************************************)
(* Events                                                                  *)
(***************************************************************************)
\* kind: "probe", "auth", "rights", "request" or "save"; cmd: the command it is
\* made for; token: the X-Auth-Token header of a request, the token an auth
\* response carries; result: connect_ex's result, the HTTP status, the decision
\* of __check_user_rights, or the outcome of the save
Event(k, c, t, r) == [kind |-> k, cmd |-> c, token |-> t, result |-> r]

\* sys.exit(code), or an exception nobody catches (Python exits with 1)
Terminate(code, exc) ==
    /\ pc' = "exited"
    /\ exitCode' = code
    /\ raised' = exc

\* a master_file that does not exist
NoArtifact == [exists |-> FALSE, readable |-> FALSE, sheets |-> <<>>]

(***************************************************************************)
(* Initial state: __init__ has stored its arguments (lines 31-40)          *)
(***************************************************************************)
Init ==
    /\ pc = "set_logger_up"
    /\ exitCode = NoExit
    /\ raised = "none"
    /\ dirExists \in BOOLEAN
    /\ token_id = Unset
    /\ user_role = Unset
    /\ first_run = Unset
    /\ call = "__init__"
    /\ command = Unset
    /\ has_right = Unset
    /\ cmd_d = Unset
    /\ sheet = NoSheet
    /\ idx = 0
    /\ wb = <<>>
    /\ ws = Unset
    /\ fileExists = FALSE
    /\ disk = <<>>
    /\ events = <<>>
    /\ calls = 0
    /\ reported = FALSE
    /\ procs = <<>>
    /\ artifact = NoArtifact

(***************************************************************************)
(* __set_logger_up, with __create_output_dir                               *)
(***************************************************************************)
set_logger_up ==
    /\ pc = "set_logger_up"
    /\ \E made \in BOOLEAN :
         IF dirExists \/ made
         THEN /\ dirExists' = TRUE
              /\ pc' = "tok_probe"
              /\ UNCHANGED <<exitCode, raised>>
         ELSE /\ Terminate(1, "SystemExit")
              /\ UNCHANGED dirExists
    /\ UNCHANGED <<procs, artifact, token_id, user_role, first_run, call, command,
                   has_right, cmd_d, sheet, idx, wb, ws, fileExists, disk, events,
                   calls, reported>>

(***************************************************************************)
(* __check_connection: connect_ex, shutdown, close, then the test of the   *)
(* result.  shutdown on a socket whose connect was refused raises OSError  *)
(* (ENOTCONN), which nothing catches; after a timed-out connect it         *)
(* succeeds.                                                               *)
(***************************************************************************)
shutdown_raises(open_port) == open_port = ECONNREFUSED

check_connection ==
    /\ pc \in {"tok_probe", "rc_probe"}
    /\ \E open_port \in ConnectResults :
         /\ events' = Append(events, Event("probe", IF pc = "tok_probe" THEN "auth" ELSE command, Unset, open_port))
         /\ IF shutdown_raises(open_port)
            THEN Terminate(1, "OSError")
            ELSE IF open_port # 0
            THEN Terminate(6, "SystemExit")
            ELSE /\ pc' = IF pc = "tok_probe" THEN "tok_post" ELSE "rc_rights"
                 /\ UNCHANGED <<exitCode, raised>>
    /\ UNCHANGED <<dirExists, procs, artifact, token_id, user_role, first_run, call, command,
                   has_right, cmd_d, sheet, idx, wb, ws, fileExists, disk, calls, reported>>

(***************************************************************************)
(* __get_token after its probe: the auth request (lines 204-214)           *)
(***************************************************************************)
\* variant: the role lookup relies on the probe made for the token
get_token_skips_probe ==
    /\ pc = "tok_post"
    /\ \E status \in Statuses, tok \in Tokens :
         /\ events' = Append(events, Event("auth", "auth", IF status = 200 THEN tok ELSE Unset, status))
         /\ IF status = 200
            THEN /\ token_id' = tok
                 /\ command' = "lscurrentuser"
                 /\ pc' = "rc_rights"
                 /\ UNCHANGED <<exitCode, raised>>
            ELSE /\ Terminate(4, "SystemExit")
                 /\ UNCHANGED <<token_id, command>>
    /\ UNCHANGED <<dirExists, procs, artifact, user_role, first_run, call, has_right, cmd_d, sheet, idx, wb,
                   ws, fileExists, disk, calls, reported>>

\* variant: the status of the auth response is not tested
get_token_ignores_status ==
    /\ pc = "tok_post"
    /\ \E status \in Statuses, tok \in Tokens :
         /\ events' = Append(events, Event("auth", "auth", IF status = 200 THEN tok ELSE Unset, status))
         /\ token_id' = IF status = 200 THEN tok ELSE Unset
         /\ command' = "lscurrentuser"
         /\ pc' = "rc_probe"
    /\ UNCHANGED <<exitCode, raised, dirExists, procs, artifact, user_role, first_run, call,
                   has_right, cmd_d, sheet, idx, wb, ws, fileExists, disk, calls, reported>>

get_token ==
    /\ pc = "tok_post"
    /\ \E status \in Statuses, tok \in Tokens :
         /\ events' = Append(events, Event("auth", "auth", IF status = 200 THEN tok ELSE Unset, status))
         /\ IF status = 200
            THEN /\ token_id' = tok
                 \* line 43: __get_user_role calls run_command("lscurrentuser")
                 /\ command' = "lscurrentuser"
                 /\ pc' = "rc_probe"
                 /\ UNCHANGED <<exitCode, raised>>
            ELSE /\ Terminate(4, "SystemExit")
                 /\ UNCHANGED <<token_id, command>>
    /\ UNCHANGED <<dirExists, procs, artifact, user_role, first_run, call, has_right, cmd_d, sheet, idx, wb,
                   ws, fileExists, disk, calls, reported>>

\* variant: a refused command is logged and sent all the same
run_command_rights_ignores ==
    /\ pc = "rc_rights"
    /\ LET decision == check_user_rights(command, user_role)
       IN  /\ events' = Append(events, Event("rights", command, Unset, decision))
           /\ has_right' = IF decision = "exit5" THEN "False" ELSE decision
    /\ pc' = "rc_post"
    /\ UNCHANGED <<exitCode, raised, dirExists, procs, artifact, token_id, user_role, first_run,
                   call, command, cmd_d, sheet, idx, wb, ws, fileExists, disk,
                   calls, reported>>

(***************************************************************************)
(* run_command after its probe: the authorization check (line 73)          *)
(***************************************************************************)
run_command_rights ==
    /\ pc = "rc_rights"
    /\ LET decision == check_user_rights(command, user_role)
       IN  /\ events' = Append(events, Event("rights", command, Unset, decision))
           /\ IF reads_role(command) /\ user_role = Unset
              THEN /\ Terminate(1, "AttributeError")
                   /\ UNCHANGED has_right
              ELSE IF decision = "exit5"
              THEN /\ Terminate(5, "SystemExit")
                   /\ UNCHANGED has_right
              ELSE /\ has_right' = decision
                   /\ pc' = "rc_post"
                   /\ UNCHANGED <<exitCode, raised>>
    /\ UNCHANGED <<dirExists, procs, artifact, token_id, user_role, first_run, call, command,
                   cmd_d, sheet, idx, wb, ws, fileExists, disk, calls, reported>>

(***************************************************************************)
(* run_command: the request and the test of its status (lines 74-88).      *)
(* Bodies(cmd) are the decoded bodies a 200 response may carry.            *)
(***************************************************************************)
Data == "<data>"

Bodies(cmd) ==
    IF cmd = "lscurrentuser" THEN Roles \cup {NoRoleEntry}
    ELSE IF cmd = "lssystem" THEN LssystemBodies
    ELSE IF InList(cmd, report_commands) THEN RecordLists
    ELSE {Data}

\* where run_command returns to
ReturnTo(caller) ==
    CASE caller = "__init__"              -> "get_user_role"
      [] caller = "generate_excel_report" -> "parse_fill"
      [] OTHER                            -> "idle"

\* variant: a request the server refused is made again
run_command_post_retries ==
    /\ pc = "rc_post"
    /\ \E status \in Statuses, body \in Bodies(command) :
         /\ events' = Append(events, Event("request", command, token_id, status))
         /\ IF status = 200
            THEN /\ cmd_d' = body
                 /\ pc' = ReturnTo(call)
            ELSE /\ pc' = "rc_post"
                 /\ UNCHANGED cmd_d
    /\ UNCHANGED <<exitCode, raised, dirExists, procs, artifact, token_id, user_role, first_run,
                   call, command, has_right, sheet, idx, wb, ws, fileExists, disk,
                   calls, reported>>

run_command_post ==
    /\ pc = "rc_post"
    /\ \E status \in Statuses, body \in Bodies(command) :
         /\ events' = Append(events, Event("request", command, token_id, status))
         /\ IF status = 200
            THEN /\ cmd_d' = body
                 /\ pc' = ReturnTo(call)
                 /\ UNCHANGED <<exitCode, raised>>
            ELSE /\ Terminate(3, "SystemExit")
                 /\ UNCHANGED cmd_d
    /\ UNCHANGED <<dirExists, procs, artifact, token_id, user_role, first_run, call, command,
                   has_right, sheet, idx, wb, ws, fileExists, disk, calls, reported>>

(***************************************************************************)
(* __get_user_role after run_command returned (lines 104-106), then        *)
(* __init__ lines 43-44.  current_user[1]["role"] raises when the          *)
(* response carries no role entry.                                         *)
(***************************************************************************)
get_user_role ==
    /\ pc = "get_user_role"
    /\ IF cmd_d = NoRoleEntry
       THEN /\ Terminate(1, "KeyError")
            /\ UNCHANGED <<user_role, first_run>>
       ELSE /\ user_role' = cmd_d
            /\ first_run' = "True"
            /\ pc' = "idle"
            /\ UNCHANGED <<exitCode, raised>>
    /\ UNCHANGED <<dirExists, procs, artifact, token_id, call, command, has_right, cmd_d, sheet, idx, wb, ws,
                   fileExists, disk, events, calls, reported>>

(***************************************************************************)
(* The driver: calls on the constructed object, then the end of the        *)
(* process.  The report is generated once per constructed object.          *)
(***************************************************************************)
\* variant: every call of run_command asks for a new token first
call_run_command_reauth ==
    /\ pc = "idle"
    /\ calls < MaxCalls
    /\ \E c \in ApiCommands, tok \in Tokens :
         /\ command' = c
         /\ token_id' = tok
         /\ call' = "run_command"
         /\ pc' = "rc_probe"
         /\ events' = <<>>
         /\ calls' = calls + 1
    /\ UNCHANGED <<exitCode, raised, dirExists, procs, artifact, user_role, first_run,
                   has_right, cmd_d, sheet, idx, wb, ws, fileExists, disk, reported>>

\* variant: run_command checks the rights before it probes the endpoint
call_run_command_rights_first ==
    /\ pc = "idle"
    /\ calls < MaxCalls
    /\ \E c \in ApiCommands :
         /\ command' = c
         /\ call' = "run_command"
         /\ pc' = "rc_rights"
         /\ events' = <<>>
         /\ calls' = calls + 1
    /\ UNCHANGED <<exitCode, raised, dirExists, procs, artifact, token_id, user_role, first_run,
                   has_right, cmd_d, sheet, idx, wb, ws, fileExists, disk, reported>>

call_run_command ==
    /\ pc = "idle"
    /\ calls < MaxCalls
    /\ \E c \in ApiCommands :
         /\ command' = c
         /\ call' = "run_command"
         /\ pc' = "rc_probe"
         /\ events' = <<>>
         /\ calls' = calls + 1
    /\ UNCHANGED <<exitCode, raised, dirExists, procs, artifact, token_id, user_role, first_run,
                   has_right, cmd_d, sheet, idx, wb, ws, fileExists, disk, reported>>

call_generate_excel_report ==
    /\ pc = "idle"
    /\ calls < MaxCalls
    /\ ~reported
    /\ reported' = TRUE
    /\ call' = "generate_excel_report"
    /\ idx' = 1
    /\ command' = report_commands[1]
    /\ pc' = "parse_open"
    /\ events' = <<>>
    /\ calls' = calls + 1
    /\ UNCHANGED <<exitCode, raised, dirExists, procs, artifact, token_id, user_role, first_run,
                   has_right, cmd_d, sheet, wb, ws, fileExists, disk>>

finish ==
    /\ pc = "idle"
    /\ Terminate(0, "none")
    /\ UNCHANGED <<dirExists, procs, artifact, token_id, user_role, first_run, call, command,
                   has_right, cmd_d, sheet, idx, wb, ws, fileExists, disk, events,
                   calls, reported>>

(***************************************************************************)
(* __parse_command_to_excel, lines 260-273: create the workbook or load it *)
(* and add a sheet, then run the command.                                  *)
(***************************************************************************)
\* wb.create_sheet(title): the sheet is added last; a title the workbook
\* already has is given the next free number as a suffix
unique_title(titles, title) ==
    IF ~InList(title, titles) THEN title
    ELSE LET used == {n \in 1..Len(titles) : InList(title \o ToString(n), titles)}
         IN  title \o ToString(IF used = {} THEN 1 ELSE Max(used) + 1)

create_sheet(titles, title) == Append(titles, unique_title(titles, title))

\* variant: first_run is never cleared, every command starts a new workbook
parse_open_keeps_first_run ==
    /\ pc = "parse_open"
    /\ wb' = <<command>>
    /\ ws' = command
    /\ pc' = "rc_probe"
    /\ UNCHANGED <<exitCode, raised, dirExists, procs, artifact, token_id, user_role, first_run,
                   call, command, has_right, cmd_d, sheet, idx, fileExists, disk,
                   events, calls, reported>>

\* variant: create_sheet(command, 0) puts the new sheet in front
parse_open_inserts_first ==
    /\ pc = "parse_open"
    /\ IF first_run = "True"
       THEN /\ wb' = <<command>>
            /\ first_run' = "False"
       ELSE /\ wb' = <<command>> \o disk
            /\ UNCHANGED first_run
    /\ ws' = command
    /\ pc' = "rc_probe"
    /\ UNCHANGED <<exitCode, raised, dirExists, procs, artifact, token_id, user_role, call, command,
                   has_right, cmd_d, sheet, idx, fileExists, disk, events, calls, reported>>

parse_open ==
    /\ pc = "parse_open"
    /\ IF first_run = "True"
       THEN /\ wb' = <<command>>
            /\ ws' = command
            /\ first_run' = "False"
            /\ pc' = "rc_probe"
            /\ UNCHANGED <<exitCode, raised>>
       ELSE IF ~fileExists
       THEN \* load_workbook raises FileNotFoundError
            /\ Terminate(1, "FileNotFoundError")
            /\ UNCHANGED <<wb, ws, first_run>>
       ELSE /\ wb' = create_sheet(disk, command)
            /\ ws' = command
            /\ pc' = "rc_probe"
            /\ UNCHANGED <<exitCode, raised, first_run>>
    /\ UNCHANGED <<dirExists, procs, artifact, token_id, user_role, call, command,
                   has_right, cmd_d, sheet, idx, fileExists, disk, events, calls, reported>>

(***************************************************************************)
(* __parse_command_to_excel, lines 270-291, after run_command returned:    *)
(* the system summary is transformed, the result is loaded into a          *)
(* DataFrame, its rows are appended to the sheet and the sheet formatted.  *)
(***************************************************************************)
parse_fill ==
    /\ pc = "parse_fill"
    /\ LET cmd_list == IF command = "lssystem"
                       THEN format_lssystem_to_excel(cmd_d)
                       ELSE cmd_d
       IN  sheet' = format_sheet(append_rows(dataframe_rows(cmd_list)))
    /\ pc' = "save_excel"
    /\ UNCHANGED <<exitCode, raised, dirExists, procs, artifact, token_id, user_role, first_run,
                   call, command, has_right, cmd_d, idx, wb, ws, fileExists,
                   disk, events, calls, reported>>

(***************************************************************************)
(* __save_excel (line 293, lines 345-353).  A save that fails leaves the   *)
(* file as it was (it could not be opened) or truncated (the write broke   *)
(* off).  After the save __parse_command_to_excel returns and              *)
(* generate_excel_report's loop goes on to the next command.               *)
(***************************************************************************)
SaveOutcomes == {"saved", "not opened", "write failed"}

\* variant: a save that fails is logged and the loop goes on
save_excel_goes_on ==
    /\ pc = "save_excel"
    /\ \E outcome \in SaveOutcomes :
         /\ events' = Append(events, Event("save", command, Unset, outcome))
         /\ CASE outcome = "saved" -> disk' = wb /\ fileExists' = TRUE
              [] outcome = "not opened" -> UNCHANGED <<disk, fileExists>>
              [] outcome = "write failed" -> disk' = <<>> /\ fileExists' = TRUE
         /\ IF idx < Len(report_commands)
            THEN /\ idx' = idx + 1
                 /\ command' = report_commands[idx + 1]
                 /\ pc' = "parse_open"
            ELSE /\ pc' = "idle"
                 /\ UNCHANGED <<idx, command>>
         /\ cmd_d' = Unset
         /\ sheet' = NoSheet
    /\ UNCHANGED <<exitCode, raised, dirExists, procs, artifact, token_id, user_role, first_run,
                   call, has_right, wb, ws, calls, reported>>

save_excel ==
    /\ pc = "save_excel"
    /\ \E outcome \in SaveOutcomes :
         /\ events' = Append(events, Event("save", command, Unset, outcome))
         /\ CASE outcome = "saved" ->
                   /\ disk' = wb
                   /\ fileExists' = TRUE
                   /\ IF idx < Len(report_commands)
                      THEN /\ idx' = idx + 1
                           /\ command' = report_commands[idx + 1]
                           /\ pc' = "parse_open"
                      ELSE /\ pc' = "idle"
                           /\ UNCHANGED <<idx, command>>
                   \* the locals of __parse_command_to_excel end with it
                   /\ cmd_d' = Unset
                   /\ sheet' = NoSheet
                   /\ UNCHANGED <<exitCode, raised>>
              [] outcome = "not opened" ->
                   /\ Terminate(2, "SystemExit")
                   /\ UNCHANGED <<disk, fileExists, idx, command, cmd_d, sheet>>
              [] outcome = "write failed" ->
                   /\ Terminate(2, "SystemExit")
                   /\ disk' = <<>>
                   /\ fileExists' = TRUE
                   /\ UNCHANGED <<idx, command, cmd_d, sheet>>
    /\ UNCHANGED <<dirExists, procs, artifact, token_id, user_role, first_run, call, has_right,
                   wb, ws, calls, reported>>

Next ==
    \/ set_logger_up
    \/ check_connection
    \/ get_token
    \/ run_command_rights
    \/ run_command_post
    \/ get_user_role
    \/ call_run_command
    \/ call_generate_excel_report
    \/ finish
    \/ parse_open
    \/ parse_fill
    \/ save_excel

Spec == Init /\ [][Next]_vars

(***************************************************************************)
(* Two process instances with one master_file.  The path is built from     *)
(* output_dir, IP and the second of construction (lines 38-39), so two     *)
(* instances constructed for the same system in the same second write the  *)
(* same file.  Both are constructed and each runs generate_excel_report;   *)
(* their steps interleave freely.  A sheet is its title and the instances  *)
(* whose rows it holds, in the order they were appended.  run_command is   *)
(* taken by its outcome: it returns, or the process ends with one of the   *)
(* exit statuses it can end with.  A save is one step; a write that breaks *)
(* off leaves a file that load_workbook cannot read.                       *)
(***************************************************************************)
Instances == {1, 2}

\* number of report commands each instance goes through
MaxCommands == 3

RunCommandExits == {1, 3, 6}

Sheet(title, writers) == [title |-> title, rows_of |-> writers]

Titles(sheets) == [k \in 1..Len(sheets) |-> sheets[k].title]

\* wb[title]: the first sheet of that title
sheet_by_title(sheets, title) == Min({k \in 1..Len(sheets) : sheets[k].title = title})

single_instance == <<pc, exitCode, raised, dirExists, token_id, user_role, first_run,
                     call, command, has_right, cmd_d, sheet, idx, wb, ws, fileExists,
                     disk, events, calls, reported>>

InitInstances ==
    /\ pc = "instances"
    /\ exitCode = NoExit
    /\ raised = "none"
    /\ dirExists = TRUE
    /\ token_id = Unset
    /\ user_role = Unset
    /\ first_run = Unset
    /\ call = "generate_excel_report"
    /\ command = Unset
    /\ has_right = Unset
    /\ cmd_d = Unset
    /\ sheet = NoSheet
    /\ idx = 0
    /\ wb = <<>>
    /\ ws = Unset
    /\ fileExists = FALSE
    /\ disk = <<>>
    /\ events = <<>>
    /\ calls = 0
    /\ reported = FALSE
    /\ procs = [i \in Instances |->
                  [pc |-> "parse_open", first_run |-> "True", idx |-> 1, wb |-> <<>>,
                   exitCode |-> NoExit]]
    /\ artifact = NoArtifact

\* lines 260-268
instance_open(i) ==
    /\ procs[i].pc = "parse_open"
    /\ LET p == procs[i]
           title == report_commands[p.idx]
       IN  IF p.first_run = "True"
           THEN procs' = [procs EXCEPT ![i] =
                            [p EXCEPT !.wb = <<Sheet(title, <<>>)>>,
                                      !.first_run = "False",
                                      !.pc = "parse_fill"]]
           ELSE IF ~artifact.exists \/ ~artifact.readable
           THEN \* load_workbook raises
                procs' = [procs EXCEPT ![i] = [p EXCEPT !.pc = "exited", !.exitCode = 1]]
           ELSE procs' = [procs EXCEPT ![i] =
                            [p EXCEPT !.wb = Append(artifact.sheets,
                                                    Sheet(unique_title(Titles(artifact.sheets), title),
                                                          <<>>)),
                                      !.pc = "parse_fill"]]
    /\ UNCHANGED <<artifact, single_instance>>

\* lines 269-291: ws is wb[command] (line 268), the rows go to that sheet
instance_fill(i) ==
    /\ procs[i].pc = "parse_fill"
    /\ LET p == procs[i]
           k == sheet_by_title(p.wb, report_commands[p.idx])
       IN  \/ procs' = [procs EXCEPT ![i] =
                          [p EXCEPT !.wb[k].rows_of = Append(@, i), !.pc = "save_excel"]]
           \/ \E code \in RunCommandExits :
                 procs' = [procs EXCEPT ![i] = [p EXCEPT !.pc = "exited", !.exitCode = code]]
    /\ UNCHANGED <<artifact, single_instance>>

\* variant: a save keeps the sheets the file has got since it was loaded
instance_save_merges(i) ==
    /\ procs[i].pc = "save_excel"
    /\ LET p == procs[i]
           go_on == IF p.idx < MaxCommands
                    THEN [p EXCEPT !.idx = @ + 1, !.pc = "parse_open"]
                    ELSE [p EXCEPT !.pc = "returned"]
       IN  \E outcome \in SaveOutcomes :
             CASE outcome = "saved" ->
                    /\ artifact' = [exists |-> TRUE, readable |-> TRUE,
                                    sheets |-> IF Len(artifact.sheets) >= Len(p.wb)
                                               THEN Append(artifact.sheets, p.wb[Len(p.wb)])
                                               ELSE p.wb]
                    /\ procs' = [procs EXCEPT ![i] = go_on]
               [] outcome = "not opened" ->
                    /\ procs' = [procs EXCEPT ![i] = [p EXCEPT !.pc = "exited", !.exitCode = 2]]
                    /\ UNCHANGED artifact
               [] outcome = "write failed" ->
                    /\ procs' = [procs EXCEPT ![i] = [p EXCEPT !.pc = "exited", !.exitCode = 2]]
                    /\ artifact' = [exists |-> TRUE, readable |-> FALSE, sheets |-> <<>>]
    /\ UNCHANGED single_instance

\* line 293 and lines 345-353, then the loop of line 96
instance_save(i) ==
    /\ procs[i].pc = "save_excel"
    /\ LET p == procs[i]
           go_on == IF p.idx < MaxCommands
                    THEN [p EXCEPT !.idx = @ + 1, !.pc = "parse_open"]
                    ELSE [p EXCEPT !.pc = "returned"]
       IN  \E outcome \in SaveOutcomes :
             CASE outcome = "saved" ->
                    /\ artifact' = [exists |-> TRUE, readable |-> TRUE, sheets |-> p.wb]
                    /\ procs' = [procs EXCEPT ![i] = go_on]
               [] outcome = "not opened" ->
                    /\ procs' = [procs EXCEPT ![i] = [p EXCEPT !.pc = "exited", !.exitCode = 2]]
                    /\ UNCHANGED artifact
               [] outcome = "write failed" ->
                    /\ procs' = [procs EXCEPT ![i] = [p EXCEPT !.pc = "exited", !.exitCode = 2]]
                    /\ artifact' = [exists |-> TRUE, readable |-> FALSE, sheets |-> <<>>]
    /\ UNCHANGED single_instance

NextInstances ==
    \/ \E i \in Instances : instance_open(i)
    \/ \E i \in Instances : instance_fill(i)
    \/ \E i \in Instances : instance_save(i)

SpecInstances == InitInstances /\ [][NextInstances]_vars

(***************************************************************************)
(* Vocabulary of the properties                                            *)
(***************************************************************************)
Requests == SelectSeq(events, LAMBDA e : e.kind = "request")

Cmds(es) == [i \in 1..Len(es) |-> es[i].cmd]

IsPrefix(s, t) == Len(s) <= Len(t) /\ s = SubSeq(t, 1, Len(s))

NoDuplicates(s) == \A i, j \in 1..Len(s) : i # j => s[i] # s[j]

\* the call made last is over: it returned or it ended the process
CallOver == pc \in {"idle", "exited"}

\* the call made last returned to the driver
Returned == pc = "idle" \/ (pc = "exited" /\ exitCode = 0)

\* the probe that opens the call in progress found the port open
ProbePassed ==
    /\ Len(events) >= 1
    /\ events[1].kind = "probe"
    /\ events[1].result = 0

\* the policy table: categories by name, first match wins, and their roles
LifecyclePrefixes == {"start", "stop", "prestart", "prestop"}
MutatePrefixes == {"add", "ch", "mk", "rm"}
MutateNames == {"expandvdisksize", "movevdisk"}
LifecycleRoles == {"Administrator", "SecurityAdmin", "CopyOperator"}
MutateRoles == {"Administrator", "SecurityAdmin"}

Category(cmd) ==
    IF startswith(cmd, "ls") THEN "Read"
    ELSE IF \E p \in LifecyclePrefixes : startswith(cmd, p) THEN "Lifecycle"
    ELSE IF (\E p \in MutatePrefixes : startswith(cmd, p)) \/ cmd \in MutateNames
         THEN "Mutate"
    ELSE "Unclassified"

PolicyDecision(cmd, role) ==
    CASE Category(cmd) = "Read"      -> "True"
      [] Category(cmd) = "Lifecycle" -> IF role \in LifecycleRoles THEN "True" ELSE "exit5"
      [] Category(cmd) = "Mutate"    -> IF role \in MutateRoles THEN "True" ELSE "exit5"
      [] OTHER                       -> "False"

Denied(cmd, role) ==
    \/ Category(cmd) = "Mutate" /\ role \notin MutateRoles
    \/ Category(cmd) = "Lifecycle" /\ role \notin LifecycleRoles

\* every name run_command is called with in the model
CommandNames ==
    ApiCommands \cup {report_commands[i] : i \in 1..Len(report_commands)}
                \cup {"lscurrentuser"}

InReport == call = "generate_excel_report"

(***************************************************************************)
(* C1.  Partial progress: when the k-th command of the report is the first *)
(* whose request returns a non-success status, the process has ended with  *)
(* exit code 3 and the file holds exactly the sheets of the first k-1      *)
(* commands, in list order.                                                *)
(***************************************************************************)
C1_PartialProgress ==
    \A k \in 1..Len(report_commands) :
        ( /\ pc = "exited"
          /\ InReport
          /\ Len(Requests) = k
          /\ Requests[k].cmd = report_commands[k]
          /\ Requests[k].result # 200
          /\ \A j \in 1..(k - 1) : Requests[j].result = 200 )
        => /\ exitCode = 3
           /\ disk = SubSeq(report_commands, 1, k - 1)

C1_Witness ==
    /\ pc = "exited"
    /\ InReport
    /\ Len(Requests) = 3
    /\ Requests[3].cmd = "lssystemstats"
    /\ Requests[3].result # 200
    /\ exitCode = 3
    /\ disk = <<"lssystem", "lsnodecanister">>

(***************************************************************************)
(* C2.  As claimed: when the probe made before authentication fails        *)
(* (connect_ex returns non-zero), no authentication request is made and    *)
(* the process ends with exit code 6.                                      *)
(***************************************************************************)
C2_FailedProbeExits6 ==
    ( /\ call = "__init__"
      /\ Len(events) >= 1
      /\ events[1].kind = "probe"
      /\ events[1].cmd = "auth"
      /\ events[1].result # 0 )
    => /\ pc = "exited"
       /\ exitCode = 6
       /\ \A i \in 1..Len(events) : events[i].kind # "auth"

(***************************************************************************)
(* C3.  As claimed: run_command of a Mutate command under a role outside   *)
(* {Administrator, SecurityAdmin}, or of a Lifecycle command under a role  *)
(* outside {Administrator, SecurityAdmin, CopyOperator}, ends the process  *)
(* with exit code 5 and sends no request.                                  *)
(***************************************************************************)
C3_DeniedExits5 ==
    (call = "run_command" /\ CallOver /\ Denied(command, user_role))
    => /\ exitCode = 5
       /\ Requests = <<>>

(***************************************************************************)
(* C3, amended.  run_command of such a command never sends a request and   *)
(* never returns; it ends the process with exit code 5 whenever its        *)
(* connectivity probe found the port open, and it ends in the probe, with  *)
(* another code, when the probe failed.                                    *)
(***************************************************************************)
C3_DeniedNeverSent ==
    (call = "run_command" /\ Denied(command, user_role))
    => /\ Requests = <<>>
       /\ pc # "rc_post"
       /\ pc # "idle"
       /\ (pc = "exited" => (exitCode = 5 <=> ProbePassed))

C3_Witness ==
    /\ call = "run_command"
    /\ pc = "exited"
    /\ exitCode = 5
    /\ command = "mkvdisk"
    /\ user_role = "CopyOperator"
    /\ ProbePassed
    /\ Requests = <<>>

(***************************************************************************)
(* C4.  The decision of __check_user_rights equals the policy table for    *)
(* every command name and role of the model: the value stored in has_right *)
(* when the request is about to be sent is the table's, exit code 5 is     *)
(* produced only where the table refuses, and the function agrees with the *)
(* table on every pair (the function does not depend on the state: the     *)
(* pairs are gone through once, where the process starts).                 *)
(***************************************************************************)
C4_PolicyTable ==
    /\ pc = "rc_post" => has_right = PolicyDecision(command, user_role)
    /\ (pc = "exited" /\ exitCode = 5) => PolicyDecision(command, user_role) = "exit5"
    /\ pc = "set_logger_up"
          => \A c \in CommandNames, r \in Roles \cup {Unset} :
                check_user_rights(c, r) = PolicyDecision(c, r)

C4_Witness ==
    /\ pc = "rc_post"
    /\ command = "startls"
    /\ user_role = "CopyOperator"
    /\ has_right = "True"

(***************************************************************************)
(* C5.  Once construction has completed, the token and the role are both   *)
(* set, and no step of any later call changes either.                      *)
(***************************************************************************)
Constructed == first_run # Unset

C5_SessionImmutable ==
    /\ [](Constructed => (token_id \in Tokens /\ user_role \in Roles))
    /\ [][Constructed => (token_id' = token_id /\ user_role' = user_role)]_vars

C5_Witness ==
    /\ Constructed
    /\ pc = "idle"
    /\ reported
    /\ calls = 2
    /\ token_id \in Tokens
    /\ user_role \in Roles

(***************************************************************************)
(* C6.  As claimed: when the lscurrentuser request of construction returns *)
(* a non-success status, or its response carries no role entry, the        *)
(* process ends with exit code 4.                                          *)
(***************************************************************************)
C6_RoleLookupFailureExits4 ==
    ( /\ pc = "exited"
      /\ call = "__init__"
      /\ Len(Requests) = 1
      /\ Requests[1].cmd = "lscurrentuser"
      /\ (Requests[1].result # 200 \/ cmd_d = NoRoleEntry) )
    => exitCode = 4

(***************************************************************************)
(* C7.  In every state the sheet titles of the file are a prefix of the    *)
(* command list without duplicates, and when generate_excel_report has     *)
(* returned the file holds one sheet per command, in list order.           *)
(***************************************************************************)
C7_SheetsArePrefix ==
    /\ IsPrefix(disk, report_commands)
    /\ NoDuplicates(disk)
    /\ (InReport /\ pc = "idle") => disk = report_commands

C7_Witness ==
    /\ InReport
    /\ pc = "idle"
    /\ disk = report_commands
    /\ Len(disk) = 18

(***************************************************************************)
(* C8.  No retries: the requests of generate_excel_report are a prefix of  *)
(* the command list (each command at most once, in list order), the whole  *)
(* list when it has returned, and a request that returned a non-success    *)
(* status is the last request of the process.                              *)
(***************************************************************************)
C8_NoRetries ==
    /\ InReport => /\ IsPrefix(Cmds(Requests), report_commands)
                   /\ (pc = "idle" => Cmds(Requests) = report_commands)
    /\ \A i \in 1..Len(Requests) :
          Requests[i].result # 200 => (i = Len(Requests) /\ pc = "exited")

C8_Witness ==
    /\ InReport
    /\ pc = "idle"
    /\ Len(Requests) = Len(report_commands)
    /\ \A i \in 1..Len(Requests) : Requests[i].result = 200

(***************************************************************************)
(* C9.  As claimed: run_command of a command that matches no policy prefix *)
(* never ends with exit code 5, sends the request, and its outcome depends *)
(* on the status alone: 200 returns the decoded body, any other status     *)
(* ends the process with exit code 3.                                      *)
(***************************************************************************)
StatusDecides ==
    /\ Len(Requests) = 1
    /\ IF Requests[1].result = 200
       THEN Returned /\ cmd_d = Data
       ELSE pc = "exited" /\ exitCode = 3

C9_UnclassifiedSent ==
    (call = "run_command" /\ CallOver /\ Category(command) = "Unclassified")
    => /\ exitCode # 5
       /\ StatusDecides

(***************************************************************************)
(* C9, amended.  run_command of such a command never ends with exit code   *)
(* 5 and is never refused; when its connectivity probe found the port open *)
(* the request is sent and the status alone decides the outcome; when the  *)
(* probe failed the process ends in the probe and no request is sent.      *)
(***************************************************************************)
C9_UnclassifiedOptimistic ==
    (call = "run_command" /\ Category(command) = "Unclassified")
    => /\ exitCode # 5
       /\ pc = "rc_post" => has_right = "False"
       /\ CallOver => IF ProbePassed
                      THEN StatusDecides
                      ELSE Requests = <<>> /\ pc = "exited" /\ exitCode \in {1, 6}

C9_Witness ==
    /\ call = "run_command"
    /\ pc = "idle"
    /\ command = "svcinfo"
    /\ user_role = "Monitor"
    /\ has_right = "False"
    /\ Len(Requests) = 1
    /\ Requests[1].result = 200
    /\ cmd_d = Data

(***************************************************************************)
(* C10.  As claimed, for the part of a run that follows the opening of the *)
(* log: a process that has ended has completed its calls (0) or ended with *)
(* the code of the failing step, 2 for a save that failed, 3 for a command *)
(* request with a non-success status, 4 for an authentication request with *)
(* a non-success status, 5 for a role that does not authorize the command, *)
(* 6 for a probe that found the endpoint unreachable; no other outcome.    *)
(***************************************************************************)
LastEvent == events[Len(events)]

C10_ExitCodes ==
    (pc = "exited" /\ events # <<>>)
    => \/ exitCode = 0
       \/ exitCode = 2 /\ LastEvent.kind = "save" /\ LastEvent.result # "saved"
       \/ exitCode = 3 /\ LastEvent.kind = "request" /\ LastEvent.result # 200
       \/ exitCode = 4 /\ LastEvent.kind = "auth" /\ LastEvent.result # 200
       \/ exitCode = 5 /\ LastEvent.kind = "rights" /\ Denied(command, user_role)
       \/ exitCode = 6 /\ LastEvent.kind = "probe" /\ LastEvent.result # 0

(***************************************************************************)
(* C11.  No command request is sent without a token of a successful        *)
(* authentication: an authentication request with a non-success status     *)
(* ends the process with exit code 4 before any command request, role      *)
(* lookup included; construction makes one authentication request and no   *)
(* later call makes another; every request carries the token that request  *)
(* returned.                                                               *)
(***************************************************************************)
AuthEvents == SelectSeq(events, LAMBDA e : e.kind = "auth")

C11_TokenFromAuth ==
    /\ Len(AuthEvents) <= 1
    /\ (call # "__init__") => AuthEvents = <<>>
    /\ \A i \in 1..Len(AuthEvents) :
          IF AuthEvents[i].result = 200
          THEN AuthEvents[i].token = token_id
          ELSE pc = "exited" /\ exitCode = 4 /\ Requests = <<>> /\ token_id = Unset
    /\ \A i \in 1..Len(Requests) :
          /\ token_id \in Tokens
          /\ Requests[i].token = token_id
    /\ (call = "__init__" /\ Requests # <<>>)
          => (Len(AuthEvents) = 1 /\ AuthEvents[1].result = 200)

C11_Witness ==
    /\ call = "generate_excel_report"
    /\ Len(Requests) = 2
    /\ token_id = "tok_b"
    /\ Requests[2].token = "tok_b"

(***************************************************************************)
(* C15.  Every HTTP request is immediately preceded by a successful probe  *)
(* made for it, and no probe is made again: construction that succeeds     *)
(* makes probe, authentication request, probe, lscurrentuser request, and  *)
(* generate_excel_report makes one probe per command, right before the     *)
(* request of that command.                                                *)
(***************************************************************************)
Network == SelectSeq(events, LAMBDA e : e.kind \in {"probe", "auth", "request"})

Probes == SelectSeq(events, LAMBDA e : e.kind = "probe")

KindsAndCmds(es) == [i \in 1..Len(es) |-> <<es[i].kind, es[i].cmd>>]

C15_ProbeBeforeRequest ==
    LET net == Network
    IN
    /\ \A i \in 1..Len(net) :
          net[i].kind \in {"auth", "request"}
          => /\ i > 1
             /\ net[i - 1].kind = "probe"
             /\ net[i - 1].result = 0
             /\ net[i - 1].cmd = net[i].cmd
    /\ \A i \in 1..(Len(net) - 1) :
          net[i].kind = "probe" => net[i + 1].kind # "probe"
    /\ (call = "__init__" /\ pc = "idle")
          => KindsAndCmds(net) = << <<"probe", "auth">>, <<"auth", "auth">>,
                                        <<"probe", "lscurrentuser">>,
                                        <<"request", "lscurrentuser">> >>
    /\ InReport => IsPrefix(Cmds(Probes), report_commands)

C15_Witness ==
    /\ InReport
    /\ pc = "idle"
    /\ Len(Probes) = Len(report_commands)
    /\ Len(Network) = 2 * Len(report_commands)

(***************************************************************************)
(* C16.  run_command probes, then checks the rights, then sends: a rights  *)
(* check follows a successful probe for the same command, a request        *)
(* follows the rights check, and when the probe fails for a command the    *)
(* role does not permit, the process ends in the probe (exit code 6, or    *)
(* the OSError that the shutdown of the refused socket raises), the rights *)
(* are never evaluated and exit code 5 is not produced.                    *)
(***************************************************************************)
RightsEvents == SelectSeq(events, LAMBDA e : e.kind = "rights")

C16_ProbeThenRightsThenRequest ==
    /\ \A i \in 1..Len(events) :
          /\ events[i].kind = "rights"
                => /\ i > 1
                   /\ events[i - 1].kind = "probe"
                   /\ events[i - 1].result = 0
                   /\ events[i - 1].cmd = events[i].cmd
          /\ events[i].kind = "request"
                => /\ i > 1
                   /\ events[i - 1].kind = "rights"
                   /\ events[i - 1].cmd = events[i].cmd
    /\ ( /\ call = "run_command"
         /\ Denied(command, user_role)
         /\ events # <<>>
         /\ ~ProbePassed )
       => /\ pc = "exited"
          /\ exitCode # 5
          /\ raised \in {"SystemExit", "OSError"}
          /\ raised = "SystemExit" => exitCode = 6
          /\ RightsEvents = <<>>
          /\ Len(events) = 1

C16_Witness ==
    /\ call = "run_command"
    /\ command = "rmvdisk"
    /\ user_role = "Monitor"
    /\ pc = "exited"
    /\ exitCode = 6
    /\ Len(events) = 1
    /\ events[1].kind = "probe"
    /\ events[1].result = EAGAIN

(***************************************************************************)
(* C18.  generate_excel_report never ends with exit code 5, whatever the   *)
(* role: every command of the list starts with ls, so every rights check   *)
(* of the report returns True on the first branch, which does not read     *)
(* the role.                                                               *)
(***************************************************************************)
C18_ReportNeverDenied ==
    /\ \A i \in 1..Len(report_commands) : startswith(report_commands[i], "ls")
    /\ InReport
       => /\ exitCode # 5
          /\ \A i \in 1..Len(RightsEvents) :
                /\ RightsEvents[i].result = "True"
                /\ ~reads_role(RightsEvents[i].cmd)
          /\ pc = "rc_post" => has_right = "True"

C18_Witness ==
    /\ InReport
    /\ pc = "idle"
    /\ user_role = "Monitor"
    /\ Len(RightsEvents) = Len(report_commands)

(***************************************************************************)
(* C19.  The role is never read before it is assigned: a rights check made *)
(* while user_role is unset is the one of lscurrentuser in __init__, which *)
(* returns on the ls branch; whenever a rights check reads the role,       *)
(* __init__ has stored it.                                                 *)
(***************************************************************************)
C19_RoleReadAfterAssigned ==
    /\ (pc = "rc_rights" /\ user_role = Unset)
          => /\ call = "__init__"
             /\ command = "lscurrentuser"
             /\ ~reads_role(command)
    /\ (pc = "rc_rights" /\ reads_role(command)) => user_role \in Roles
    /\ \A i \in 1..Len(RightsEvents) :
          reads_role(RightsEvents[i].cmd) => user_role \in Roles
    /\ raised # "AttributeError"

C19_Witness ==
    /\ pc = "rc_post"
    /\ call = "__init__"
    /\ user_role = Unset
    /\ Len(RightsEvents) = 1
    /\ RightsEvents[1].cmd = "lscurrentuser"
    /\ RightsEvents[1].result = "True"

(***************************************************************************)
(* C12.  The sheet of lssystem has the header and one data row; its        *)
(* columns are the 24 fixed columns, holding the fields the code names for *)
(* them, followed for each tier of the summary, in order, by               *)
(* {tier}_total and {tier}_free holding the capacity and the free capacity *)
(* of that tier; "Quorum lease" and "NAS key" are not columns.             *)
(***************************************************************************)
AtLssystemSheet == pc = "save_excel" /\ command = "lssystem"

C12_LssystemColumns ==
    AtLssystemSheet
    => LET FixedColumns == 24
           tiers  == cmd_d.tiers
           header == sheet.rows[1]
           row    == sheet.rows[2]
       IN  /\ Len(sheet.rows) = 2
           /\ Len(lssystem_columns) = FixedColumns
           /\ Len(header) = FixedColumns + 2 * Len(tiers)
           /\ Len(row) = Len(header)
           /\ \A i \in 1..FixedColumns :
                 /\ header[i] = lssystem_columns[i][1]
                 /\ row[i] = FieldValue(lssystem_columns[i][2])
           /\ \A k \in 1..Len(tiers) :
                 /\ header[FixedColumns + 2 * k - 1] = tiers[k].tier \o "_total"
                 /\ row[FixedColumns + 2 * k - 1] = tiers[k].tier_capacity
                 /\ header[FixedColumns + 2 * k] = tiers[k].tier \o "_free"
                 /\ row[FixedColumns + 2 * k] = tiers[k].tier_free_capacity
           /\ \A i \in 1..Len(header) :
                 /\ header[i] \notin {"Quorum lease", "NAS key"}
                 /\ row[i] \notin {FieldValue("quorum_lease"), FieldValue("has_nas_key")}

C12_Witness ==
    /\ AtLssystemSheet
    /\ Len(sheet.rows) = 2
    /\ Len(sheet.rows[1]) = 28
    /\ SubSeq(sheet.rows[1], 25, 28) =
          <<"tier0_flash_total", "tier0_flash_free",
            "tier1_enterprise_total", "tier1_enterprise_free">>
    /\ SubSeq(sheet.rows[2], 25, 28) = <<"10.00TB", "4.00TB", "20.00TB", "5.00TB">>

(***************************************************************************)
(* C13.  Formatting is idempotent: for every sheet the report builds,      *)
(* formatting it twice gives the widths, fonts, fills and alignments that  *)
(* formatting it once gives; every column has the fixed width, the header  *)
(* row its font and fill, every cell is centered, and the data rows carry  *)
(* the two fills by the parity of the row index.                           *)
(***************************************************************************)
C13_FormatIdempotent ==
    pc = "save_excel"
    => LET raw  == append_rows(sheet.rows)
           once == format_sheet(raw)
       IN  /\ sheet = once
           /\ format_sheet(once) = once
           /\ \A c \in DOMAIN once.width : once.width[c] = ColumnWidth
           /\ DOMAIN once.width = min_column(raw)..max_column(raw)
           /\ raw.cells \subseteq once.cells
           /\ \A rc \in once.cells :
                 /\ once.alignment[rc] = Centered
                 /\ once.font[rc] = IF rc[1] = 1 THEN HEADER_FONT ELSE DefaultFont
                 /\ once.fill[rc] = IF rc[1] = 1 THEN HeaderFill
                                    ELSE IF rc[1] % 2 = 0 THEN EvenRowFill
                                    ELSE OddRowFill

C13_Witness ==
    /\ pc = "save_excel"
    /\ Len(sheet.rows) = 3
    /\ Len(sheet.rows[1]) = 3
    /\ sheet.fill[<<1, 1>>] = HeaderFill
    /\ sheet.fill[<<2, 3>>] = EvenRowFill
    /\ sheet.fill[<<3, 1>>] = OddRowFill
    /\ format_sheet(sheet) = sheet

(***************************************************************************)
(* C17.  As claimed: for a command other than lssystem whose result is a   *)
(* non-empty list of records, the header of the sheet is the sequence of   *)
(* the keys of the first record, also when later records carry other keys. *)
(***************************************************************************)
AtListSheet == pc = "save_excel" /\ command # "lssystem" /\ cmd_d # <<>>

C17_HeaderIsFirstRecord ==
    AtListSheet => sheet.rows[1] = Keys(cmd_d[1])

(***************************************************************************)
(* C17, amended.  The header is the sequence of the keys of all records in *)
(* order of first appearance: it starts with the keys of the first record, *)
(* goes on with the keys that only later records carry, and it is the key  *)
(* sequence of the first record exactly when no later record carries a key *)
(* the first one lacks.                                                    *)
(***************************************************************************)
KeySet(rec) == {rec[i][1] : i \in 1..Len(rec)}

FirstRecordWith(list, k) == Min({i \in 1..Len(list) : k \in KeySet(list[i])})

C17_HeaderIsKeyUnion ==
    AtListSheet
    => LET header == sheet.rows[1]
           first  == Keys(cmd_d[1])
       IN  /\ IsPrefix(first, header)
           /\ NoDuplicates(header)
           /\ {header[i] : i \in 1..Len(header)} =
                 UNION {KeySet(cmd_d[i]) : i \in 1..Len(cmd_d)}
           /\ \A a, b \in 1..Len(header) :
                 a < b => FirstRecordWith(cmd_d, header[a]) <= FirstRecordWith(cmd_d, header[b])
           /\ (header = first) <=>
                 (\A i \in 1..Len(cmd_d) : KeySet(cmd_d[i]) \subseteq KeySet(cmd_d[1]))
           /\ Len(sheet.rows) = 1 + Len(cmd_d)

C17_Witness ==
    /\ AtListSheet
    /\ Len(cmd_d) = 2
    /\ Keys(cmd_d[1]) = <<"id">>
    /\ Keys(cmd_d[2]) = <<"id", "name", "status">>
    /\ sheet.rows[1] = <<"id", "name", "status">>
    /\ sheet.rows[2] = <<"id1", NaN, NaN>>

(***************************************************************************)
(* C20.  Whenever __parse_command_to_excel is entered, first_run is false  *)
(* exactly when the file exists and holds the sheets of the commands       *)
(* processed before; the branch that loads the workbook never finds the    *)
(* file missing.                                                           *)
(***************************************************************************)
C20_FlagAgreesWithDisk ==
    /\ pc = "parse_open"
       => /\ first_run \in {"True", "False"}
          /\ (first_run = "False")
                <=> (fileExists /\ idx > 1 /\ disk = SubSeq(report_commands, 1, idx - 1))
          /\ (first_run = "True") => (idx = 1 /\ ~fileExists)
    /\ raised # "FileNotFoundError"

C20_Witness ==
    /\ pc = "parse_open"
    /\ idx = 3
    /\ first_run = "False"
    /\ fileExists
    /\ disk = <<"lssystem", "lsnodecanister">>

(***************************************************************************)
(* C14.  The writes of two instances on one path are not coordinated: a    *)
(* load takes the file as it is and a save replaces the file by the        *)
(* workbook of the saver, whatever the other instance has saved since the  *)
(* saver loaded.  (The state in which the file is the completed sheet      *)
(* sequence of neither instance is C14_Witness.)                           *)
(***************************************************************************)
Loads(i) ==
    /\ procs[i].pc = "parse_open"
    /\ procs[i].first_run = "False"
    /\ procs'[i].pc = "parse_fill"

Saves(i) ==
    /\ procs[i].pc = "save_excel"
    /\ procs'[i].pc \in {"parse_open", "returned"}

C14_LastSaveWins ==
    [][\A i \in Instances :
          /\ Loads(i) => /\ Len(procs'[i].wb) = Len(artifact.sheets) + 1
                         /\ SubSeq(procs'[i].wb, 1, Len(artifact.sheets)) = artifact.sheets
          /\ Saves(i) => artifact' = [exists |-> TRUE, readable |-> TRUE,
                                     sheets |-> procs[i].wb]]_vars

\* number of commands whose sheet instance i has saved
Completed(i) == IF procs[i].pc = "returned" THEN MaxCommands ELSE procs[i].idx - 1

\* the file an instance running alone has after that many commands
CompletedSheets(i) == [k \in 1..Completed(i) |-> Sheet(report_commands[k], <<i>>)]

\* instance i has saved the sheet of a command and the file has no rows of it
Lost(i) ==
    \E k \in 1..Completed(i) :
        \A n \in 1..Len(artifact.sheets) :
            artifact.sheets[n].title = report_commands[k]
                => ~InList(i, artifact.sheets[n].rows_of)

C14_Witness ==
    /\ procs # <<>>
    /\ artifact.exists /\ artifact.readable
    /\ Completed(1) = 3
    /\ Completed(2) = 1
    /\ artifact.sheets = <<Sheet("lssystem", <<2>>), Sheet("lssystemstats", <<1>>)>>
    /\ \A i \in Instances : artifact.sheets # CompletedSheets(i)
    /\ Lost(1)
====
